---- MODULE Spec2Model ----
(***************************************************************************)
(* Model of the bulk URL pipeline of the content generation tool:          *)
(* BulkUrlProcessor (src/types.ts 415-805), the services it calls          *)
(* (scraperService = src/unnamed/part_002, geminiService =                 *)
(* src/unnamed/part_000) and the view switch of App (src/App.tsx).         *)
(*                                                                         *)
(* JavaScript runs every task to completion: a click handler, a FileReader *)
(* onload or the continuation of an await is never interleaved with        *)
(* another task.  The variable task holds the run whose continuation is    *)
(* executing; every other action waits for task = 0.  Inside a task each   *)
(* setJobs / setIsProcessing call is one step, so the store is observed    *)
(* after every single update.                                              *)
(***************************************************************************)
EXTENDS Integers, Sequences, FiniteSets, TLC

\* ------------------------------------------------------------------ bounds
MaxRows == 2
MaxRuns == 2
MaxLoads == 2
MaxPending == 1
MaxText == 4
MaxLines == 6
MaxPad == 1
MaxKeys == 3

\* --------------------------------------------------------------- constants
Views == {"HOME", "SINGLE", "BULK"}

\* messages are sequences of words, so that String.includes can be computed;
\* the words of a message put one after the other are the string of the source
MissingKeyMsg == <<"Gemini ", "API Key", " is missing. Please set it in the Settings.">>
InvalidKeyText == <<"Error: Invalid or missing ", "API Key", ". Please check your settings.">>
UnableText == <<"Unable to extract content from this URL. It may be blocked or not indexed.">>
ScrapeFallbackMsg == <<"Failed to scrape URL via AI">>
TransformFallbackMsg == <<"Failed to transform content">>
NoContentText == <<"No content generated.">>
NullTypeErrorMsg == <<"Cannot read properties of null (reading 'message')">>

\* what the generateContent call of the SDK can do once a client exists:
\* answer with text, answer with no text, reject with an Error (whose message
\* mentions 'API key', is some other text, or is empty), or reject with a
\* value that is null/undefined (the catch parameters are typed any).
SvcOutcomes == {"text", "empty", "errKey", "errOther", "errNoMsg", "rejectNull"}
\* the outcomes the pipeline is driven with: for the extraction an answer or
\* the one rejection scrapeUrl reports as failed (a rejection with an Error
\* is returned as text, as happens on every call made without a key)
ScrapeOutcomes == {"text", "rejectNull"}
TransformOutcomes == {"text", "empty", "errOther"}

PageText == <<"page text">>
ModelText == <<"model text">>

ErrMsgOf(outcome) ==
  CASE outcome = "errKey" -> <<"API key", " not valid. Please pass a valid ", "API key">>
    [] outcome = "errOther" -> <<"fetch failed">>
    [] OTHER -> <<>>

\* String.prototype.includes('API key'): case-sensitive search for the word
IncludesApiKey(msg) == \E k \in DOMAIN msg : msg[k] = "API key"

\* ------------------------------------------------------------ text helpers
\* a URL cell is a sequence of characters
Cells == { <<>>, <<" ", "a">> }

RECURSIVE TrimLeft(_)
TrimLeft(s) == IF s # <<>> /\ Head(s) = " " THEN TrimLeft(Tail(s)) ELSE s

RECURSIVE TrimRight(_)
TrimRight(s) ==
  IF s # <<>> /\ s[Len(s)] = " " THEN TrimRight(SubSeq(s, 1, Len(s) - 1)) ELSE s

Trim(s) == TrimRight(TrimLeft(s))

\* an optional value: <<>> when absent, <<v>> when present
None == <<>>
Some(v) == <<v>>
Present(o) == o # <<>>

\* the closure of a run outlives its component, which is then unmounted
Unmounted(run) == [run EXCEPT !.mounted = FALSE]

VARIABLES
  view,        \* App.currentView
  jobs,        \* useState jobs of the mounted instance
  isProcessing,\* useState isProcessing of the mounted instance
  prompt,      \* useState prompt of the mounted instance
  sampleFile,  \* useState sampleFile of the mounted instance
  localKey,    \* localStorage 'gemini_api_key' is set
  urlReads,    \* number of URL list reads of the mounted instance awaiting onload
  sampleReads, \* number of sample reads of the mounted instance awaiting onload
  stamp,       \* number of onload events that have read Date.now()
  runs,        \* the startProcessing invocations, each with its closure
  task,        \* the run whose continuation is executing, 0 when none
  tcalls,      \* ids of the jobs in the store transformContent was called for
  scalls,      \* ids of the jobs in the store scrapeUrl was called for
  single,      \* the useState values of the mounted SingleUrlProcessor
  app          \* the key management of App: showApiKeyModal, apiKey, keyError
               \* and the value of localStorage 'gemini_api_key' ("" when unset)

vars == <<view, jobs, isProcessing, prompt, sampleFile, localKey,
          urlReads, sampleReads, stamp, runs, task, tcalls, scalls, single,
          app>>

\* ---------------------------------------------------------------- services
\* getGenAIClient: userKey || process.env.API_KEY, throws when neither is set.
\* A key supplied by the build behaves as a key stored from the start, so the
\* build is taken to supply none.
EnvKey == FALSE
HasKey == localKey \/ EnvKey

\* a settled promise: thrown = FALSE with the value, or TRUE with err.message
Resolved(v) == [thrown |-> FALSE, val |-> v]
Rejected(m) == [thrown |-> TRUE, val |-> m]

\* scrapeContentWithGenAI: every Error is turned into a returned text; only
\* a null rejection makes the catch block itself throw (error.message)
scrapeContentWithGenAI(hasKey, outcome) ==
  LET caught(msg) == IF IncludesApiKey(msg)
                       THEN Resolved(InvalidKeyText)
                       ELSE Resolved(<<"Error accessing page: ">> \o msg
                                       \o <<". Please check the URL.">>)
  IN CASE ~hasKey -> caught(MissingKeyMsg)
       [] outcome = "text" -> Resolved(PageText)
       [] outcome = "empty" -> Resolved(UnableText)
       [] outcome = "rejectNull" -> Rejected(NullTypeErrorMsg)
       [] OTHER -> caught(ErrMsgOf(outcome))

\* the number of characters of a text
RECURSIVE TextLen(_)
TextLen(text) == IF text = <<>> THEN 0 ELSE Len(Head(text)) + TextLen(Tail(text))

\* the title scrapeUrl infers from a text of a single line that carries no
\* 'Title:' or 'Product Name:' label, as every text above is: the line when
\* it is shorter than 100 characters
InferredTitle(text) ==
  IF text # <<>> /\ TextLen(text) < 100 THEN text ELSE <<"Scraped Page Content">>

\* scrapeUrl: never throws, reports a failure in the status field
scrapeUrl(url, hasKey, outcome) ==
  LET r == scrapeContentWithGenAI(hasKey, outcome)
  IN IF r.thrown
       THEN [url |-> url, title |-> <<"Extraction Failed">>, content |-> <<>>,
             status |-> "failed",
             error |-> Some(IF r.val # <<>> THEN r.val ELSE ScrapeFallbackMsg)]
       ELSE [url |-> url, title |-> InferredTitle(r.val), content |-> r.val,
             status |-> "success", error |-> None]

\* transformContent: the text of the answer (or the placeholder when it is
\* empty), or a thrown Error carrying the message of the failure
transformContent(hasKey, outcome) ==
  LET rethrow(msg) == Rejected(IF msg # <<>> THEN msg ELSE TransformFallbackMsg)
  IN CASE ~hasKey -> rethrow(MissingKeyMsg)
       [] outcome = "text" -> Resolved(ModelText)
       [] outcome = "empty" -> Resolved(NoContentText)
       [] outcome = "rejectNull" -> Rejected(NullTypeErrorMsg)
       [] OTHER -> rethrow(ErrMsgOf(outcome))

\* ------------------------------------------- the answer of the transformer
\* The text of an answer is a string; Len, SubSeq and \o act on its characters.
Ch(s, i) == SubSeq(s, i, i)
\* the grave accent, which a TLA+ string cannot hold, is written ~ in the
\* texts below; Fence is the three of them that open and close a code block
Fence == "~~~"
Letters ==
  {"a", "b", "c", "d", "e", "f", "g", "h", "i", "j", "k", "l", "m", "n", "o",
   "p", "q", "r", "s", "t", "u", "v", "w", "x", "y", "z",
   "A", "B", "C", "D", "E", "F", "G", "H", "I", "J", "K", "L", "M", "N", "O",
   "P", "Q", "R", "S", "T", "U", "V", "W", "X", "Y", "Z"}
\* \s of a regular expression, as far as answers are made of it
WhiteSpace == {" ", "\n", "\t", "\r"}
StartsWith(s, i, pat) ==
  i + Len(pat) - 1 <= Len(s) /\ SubSeq(s, i, i + Len(pat) - 1) = pat
AtLineStart(s, i) == i = 1 \/ Ch(s, i - 1) = "\n"

\* .replace(/^(fence)[a-z]*\n?/i, ''): a fence that opens the text, its
\* language tag and one line break
RECURSIVE SkipLetters(_, _)
SkipLetters(s, i) ==
  IF i <= Len(s) /\ Ch(s, i) \in Letters THEN SkipLetters(s, i + 1) ELSE i
StripOpeningFence(s) ==
  IF StartsWith(s, 1, Fence)
    THEN LET i == SkipLetters(s, Len(Fence) + 1)
             j == IF i <= Len(s) /\ Ch(s, i) = "\n" THEN i + 1 ELSE i
         IN SubSeq(s, j, Len(s))
    ELSE s
\* .replace(/(fence)$/, ''): a fence that ends the text
StripClosingFence(s) ==
  IF Len(s) >= Len(Fence) /\ SubSeq(s, Len(s) - Len(Fence) + 1, Len(s)) = Fence
    THEN SubSeq(s, 1, Len(s) - Len(Fence)) ELSE s

\* .replace(/\*\*/g, '') and .replace(/__/g, ''): every occurrence of a pair,
\* found from left to right in the text as it was
RECURSIVE RemoveAll(_, _, _)
RemoveAll(s, i, pat) ==
  IF i > Len(s) THEN ""
  ELSE IF StartsWith(s, i, pat) THEN RemoveAll(s, i + Len(pat), pat)
  ELSE Ch(s, i) \o RemoveAll(s, i + 1, pat)

\* .replace(/^#+\s/gm, ''): at the start of a line, the # signs and the one
\* white space character after them
RECURSIVE SkipHashes(_, _)
SkipHashes(s, i) ==
  IF i <= Len(s) /\ Ch(s, i) = "#" THEN SkipHashes(s, i + 1) ELSE i
RECURSIVE StripHeadings(_, _)
StripHeadings(s, i) ==
  IF i > Len(s) THEN ""
  ELSE LET h == SkipHashes(s, i)
       IN IF AtLineStart(s, i) /\ h > i /\ h <= Len(s) /\ Ch(s, h) \in WhiteSpace
            THEN StripHeadings(s, h + 1)
            ELSE Ch(s, i) \o StripHeadings(s, i + 1)

\* .replace(/^\* /gm, '- ')
RECURSIVE DashBullets(_, _)
DashBullets(s, i) ==
  IF i > Len(s) THEN ""
  ELSE IF AtLineStart(s, i) /\ StartsWith(s, i, "* ")
    THEN "- " \o DashBullets(s, i + 2)
  ELSE Ch(s, i) \o DashBullets(s, i + 1)

\* .replace(/  +/g, ' ')
RECURSIVE SkipSpaces(_, _)
SkipSpaces(s, i) ==
  IF i <= Len(s) /\ Ch(s, i) = " " THEN SkipSpaces(s, i + 1) ELSE i
RECURSIVE SqueezeSpaces(_, _)
SqueezeSpaces(s, i) ==
  IF i > Len(s) THEN ""
  ELSE IF StartsWith(s, i, "  ") THEN " " \o SqueezeSpaces(s, SkipSpaces(s, i))
  ELSE Ch(s, i) \o SqueezeSpaces(s, i + 1)

\* String.prototype.trim
RECURSIVE TrimText(_)
TrimText(s) ==
  IF Len(s) > 0 /\ Ch(s, 1) \in WhiteSpace THEN TrimText(SubSeq(s, 2, Len(s)))
  ELSE IF Len(s) > 0 /\ Ch(s, Len(s)) \in WhiteSpace
    THEN TrimText(SubSeq(s, 1, Len(s) - 1))
  ELSE s

\* userPrompt.toLowerCase().includes('markdown'), the prompt being a sequence
\* of words
IsMarkdownRequested(userPrompt) ==
  \E k \in DOMAIN userPrompt : userPrompt[k] \in {"markdown", "Markdown", "MARKDOWN"}

\* sampleFileContent is given and is not the empty string
SampleGiven(sampleOpt) == Present(sampleOpt) /\ sampleOpt[1] # <<>>

\* transformContent from the answer on (part_000 143-167): raw is
\* response.text || ""
PostProcess(raw, userPrompt, sampleOpt) ==
  LET unfenced == StripClosingFence(StripOpeningFence(raw))
      text == IF ~IsMarkdownRequested(userPrompt) /\ ~SampleGiven(sampleOpt)
                THEN SqueezeSpaces(
                       DashBullets(
                         StripHeadings(
                           RemoveAll(RemoveAll(unfenced, 1, "**"), 1, "__"),
                           1),
                         1),
                       1)
                ELSE unfenced
      cleanedText == TrimText(text)
  IN IF cleanedText # "" THEN cleanedText ELSE "No content generated."

\* ------------------------------------------------ the title of an extraction
\* The extracted text is a string.  String.prototype.split('\n'):
RECURSIVE LineEnd(_, _)
LineEnd(s, i) == IF i <= Len(s) /\ Ch(s, i) # "\n" THEN LineEnd(s, i + 1) ELSE i
RECURSIVE SplitLines(_, _)
SplitLines(s, i) ==
  LET e == LineEnd(s, i)
  IN <<SubSeq(s, i, e - 1)>> \o (IF e > Len(s) THEN <<>> ELSE SplitLines(s, e + 1))

\* .filter(line => line.trim().length > 0)
NonEmptyLines(extractedText) ==
  SelectSeq(SplitLines(extractedText, 1), LAMBDA line : Len(TrimText(line)) > 0)

\* String.prototype.toLowerCase, letter by letter
UpperCase == "ABCDEFGHIJKLMNOPQRSTUVWXYZ"
LowerCase == "abcdefghijklmnopqrstuvwxyz"
LowerMap ==
  [c \in {Ch(UpperCase, k) : k \in 1..Len(UpperCase)} |->
     Ch(LowerCase, CHOOSE k \in 1..Len(UpperCase) : Ch(UpperCase, k) = c)]
LowerOf(c) == IF c \in DOMAIN LowerMap THEN LowerMap[c] ELSE c
RECURSIVE ToLowerCase(_)
ToLowerCase(s) ==
  IF s = "" THEN "" ELSE LowerOf(Ch(s, 1)) \o ToLowerCase(SubSeq(s, 2, Len(s)))

\* line.toLowerCase().startsWith(label): the lower-cased line starts with
\* the label when its first Len(label) characters, lower-cased, are the label
TitleLabels == <<"title:", "product name:">>
BeginsWith(line, label) ==
  Len(line) >= Len(label) /\ ToLowerCase(SubSeq(line, 1, Len(label))) = label
HasLabel(line) == \E k \in DOMAIN TitleLabels : BeginsWith(line, TitleLabels[k])

\* line.replace(/^(Title:|Product Name:)/i, '')
StripLabel(line) ==
  IF BeginsWith(line, TitleLabels[1])
    THEN SubSeq(line, Len(TitleLabels[1]) + 1, Len(line))
  ELSE IF BeginsWith(line, TitleLabels[2])
    THEN SubSeq(line, Len(TitleLabels[2]) + 1, Len(line))
  ELSE line

\* mutant: every line is looked at
ScanLimit_All(lines) == Len(lines)
\* Math.min(lines.length, 5)
ScanLimit(lines) == IF Len(lines) < 5 THEN Len(lines) ELSE 5

\* the for loop of scrapeUrl (part_002 19-28), i counted from 1
RECURSIVE TitleLoop(_, _, _)
TitleLoop(lines, i, inferredTitle) ==
  IF i > ScanLimit(lines) THEN inferredTitle
  ELSE IF HasLabel(lines[i]) THEN TrimText(StripLabel(lines[i]))
  ELSE TitleLoop(lines, i + 1,
                 IF i = 1 /\ Len(lines[i]) < 100 THEN lines[i] ELSE inferredTitle)

inferredTitle(extractedText) ==
  TitleLoop(NonEmptyLines(extractedText), 1, "Scraped Page Content")

\* scrapeUrl when scrapeContentWithGenAI returns the string extractedText
scrapeUrlText(url, extractedText) ==
  [url |-> url, title |-> inferredTitle(extractedText),
   content |-> extractedText, status |-> "success", error |-> None]

\* ------------------------------------------------------------------- store
\* mutant: the id is made of the time stamp alone
NewJob_StampOnly(idx, t, url) ==
  [id |-> <<0, t>>, url |-> Trim(url), scrapeStatus |-> "idle",
   transformStatus |-> "idle", scrapedData |-> None,
   transformedData |-> None, error |-> None]
NewJob(idx, t, url) ==
  [id |-> <<idx, t>>, url |-> Trim(url), scrapeStatus |-> "idle",
   transformStatus |-> "idle", scrapedData |-> None,
   transformedData |-> None, error |-> None]

\* data.map(...).filter(job => job !== null), idx counts the dropped rows too
RECURSIVE NewJobsFrom(_, _, _)
NewJobsFrom(rows, k, t) ==
  IF k > Len(rows) THEN <<>>
  ELSE IF rows[k] = <<>> THEN NewJobsFrom(rows, k + 1, t)
  ELSE <<NewJob(k - 1, t, rows[k])>> \o NewJobsFrom(rows, k + 1, t)

\* a truthy prompt string / a non-null sampleFile object
HasSpec(p, sf) == p # <<>> \/ Present(sf)

\* mutant: a job whose extraction failed is not counted
IsCompleted_FailedNotCounted(j, p, sf) ==
  /\ j.scrapeStatus = "success"
  /\ (HasSpec(p, sf) => j.transformStatus \in {"success", "failed"})
\* completedJobs of the render (types.ts 434-444)
IsCompleted(j, p, sf) ==
  \/ j.scrapeStatus = "failed"
  \/ /\ j.scrapeStatus = "success"
     /\ (HasSpec(p, sf) => j.transformStatus \in {"success", "failed"})

completedJobs == Cardinality({k \in DOMAIN jobs : IsCompleted(jobs[k], prompt, sampleFile)})
totalJobs == Len(jobs)

\* the sheets that are uploaded: the rows up to the last one with a URL (a
\* sheet with further rows without URL gives the same store)
RowLists == {rows \in [1..MaxRows -> Cells] : rows[MaxRows] # <<>>}
Prompts == {<<>>, <<"summarize">>}
SampleContents == {<<"a,b,c">>}

\* the keys a user may have: 'AIza' and 27 or more further characters
RECURSIVE Repeat(_, _)
Repeat(c, n) == IF n = 0 THEN "" ELSE c \o Repeat(c, n - 1)
ValidKey(n) == "AIza" \o Repeat("k", 26 + n)

\* App after its mount effect (App.tsx 13-15, 27-34): a stored key is put in
\* the input, and without one the modal is shown
AppInit(hasStoredKey) ==
  IF hasStoredKey
    THEN [showApiKeyModal |-> FALSE, apiKey |-> ValidKey(1), keyError |-> "",
          storedKey |-> ValidKey(1)]
    ELSE [showApiKeyModal |-> TRUE, apiKey |-> "", keyError |-> "",
          storedKey |-> ""]

\* the useState initial values of SingleUrlProcessor (types.ts 65-75); pc and
\* target are the pending call of the instance and the url it was made with,
\* keyed tells whether getGenAIClient found a key when the call was made
SingleInit ==
  [url |-> <<>>, step |-> 1, loading |-> FALSE, scrapedData |-> None,
   prompt |-> <<>>, sampleFile |-> None, result |-> <<>>, error |-> None,
   pc |-> "idle", target |-> <<>>, keyed |-> FALSE]

Init ==
  /\ view = "HOME"
  /\ jobs = <<>>
  /\ isProcessing = FALSE
  /\ prompt = <<>>
  /\ sampleFile = None
  /\ localKey \in BOOLEAN
  /\ urlReads = 0
  /\ sampleReads = 0
  /\ stamp = 0
  /\ runs = <<>>
  /\ task = 0
  /\ tcalls = {}
  /\ scalls = {}
  /\ single = SingleInit
  /\ app = AppInit(localKey)

\* ------------------------------------------------------------ user actions
\* setCurrentView: leaving BULK unmounts the instance: its state is gone and
\* the setState calls of its closures (the runs, the onload handlers of its
\* readers) no longer have an effect; entering BULK mounts a new instance
\* with the useState initial values
Navigate(v) ==
  /\ task = 0
  /\ v # view
  /\ view' = v
  /\ IF v = "BULK" \/ view = "BULK"
       THEN /\ jobs' = <<>>
            /\ isProcessing' = FALSE
            /\ prompt' = <<>>
            /\ sampleFile' = None
            /\ urlReads' = 0
            /\ sampleReads' = 0
            /\ runs' = [r \in DOMAIN runs |-> Unmounted(runs[r])]
            /\ tcalls' = {}
            /\ scalls' = {}
       ELSE UNCHANGED <<jobs, isProcessing, prompt, sampleFile, urlReads,
                        sampleReads, runs, tcalls, scalls>>
  /\ UNCHANGED <<localKey, stamp, task>>
  /\ single' = IF v = "SINGLE" \/ view = "SINGLE" THEN SingleInit ELSE single
  /\ UNCHANGED app

\* the file input is disabled while isProcessing; the read is asynchronous
handleUrlFileUpload ==
  /\ task = 0
  /\ view = "BULK"
  /\ ~isProcessing
  /\ stamp + urlReads < MaxLoads
  /\ urlReads + sampleReads < MaxPending
  /\ urlReads' = urlReads + 1
  /\ UNCHANGED <<view, jobs, isProcessing, prompt, sampleFile,
                 localKey, sampleReads, stamp, runs, task, tcalls, scalls>>
  /\ UNCHANGED single
  /\ UNCHANGED app

\* reader.onload of a pending read, rows being the sheet of the file:
\* setJobs(newJobs), ids carry Date.now() of this event
UrlReaderOnload(rows) ==
  /\ task = 0
  /\ urlReads > 0
  /\ urlReads' = urlReads - 1
  /\ stamp' = stamp + 1
  /\ jobs' = NewJobsFrom(rows, 1, stamp + 1)
  /\ tcalls' = {}
  /\ scalls' = {}
  /\ UNCHANGED <<view, isProcessing, prompt, sampleFile,
                 localKey, sampleReads, runs, task>>
  /\ UNCHANGED single
  /\ UNCHANGED app

\* the Clear button: shown when jobs.length > 0, disabled while isProcessing
ClearJobs ==
  /\ task = 0
  /\ view = "BULK"
  /\ jobs # <<>>
  /\ ~isProcessing
  /\ jobs' = <<>>
  /\ tcalls' = {}
  /\ scalls' = {}
  /\ UNCHANGED <<view, isProcessing, prompt, sampleFile,
                 localKey, urlReads, sampleReads, stamp, runs, task>>
  /\ UNCHANGED single
  /\ UNCHANGED app

\* the prompt textarea, disabled while isProcessing
SetPrompt(p) ==
  /\ task = 0
  /\ view = "BULK"
  /\ ~isProcessing
  /\ p # prompt
  /\ prompt' = p
  /\ UNCHANGED <<view, jobs, isProcessing, sampleFile,
                 localKey, urlReads, sampleReads, stamp, runs, task,
                 tcalls, scalls>>
  /\ UNCHANGED single
  /\ UNCHANGED app

\* the sample input is disabled while isProcessing; reading is asynchronous
handleSampleFileUpload ==
  /\ task = 0
  /\ view = "BULK"
  /\ ~isProcessing
  /\ urlReads + sampleReads < MaxPending
  /\ sampleReads' = sampleReads + 1
  /\ UNCHANGED <<view, jobs, isProcessing, prompt, sampleFile,
                 localKey, urlReads, stamp, runs, task, tcalls, scalls>>
  /\ UNCHANGED single
  /\ UNCHANGED app

\* reader.onload (after mammoth for a docx) of a pending read, c being the
\* text of the file: setSampleFile({... content})
SampleReaderOnload(c) ==
  /\ task = 0
  /\ sampleReads > 0
  /\ sampleReads' = sampleReads - 1
  /\ sampleFile' = Some([content |-> c])
  /\ UNCHANGED <<view, jobs, isProcessing, prompt,
                 localKey, urlReads, stamp, runs, task, tcalls, scalls>>
  /\ UNCHANGED single
  /\ UNCHANGED app

\* the X button of the sample: setSampleFile(null), disabled while processing
RemoveSample ==
  /\ task = 0
  /\ view = "BULK"
  /\ ~isProcessing
  /\ Present(sampleFile)
  /\ sampleFile' = None
  /\ UNCHANGED <<view, jobs, isProcessing, prompt,
                 localKey, urlReads, sampleReads, stamp, runs, task,
                 tcalls, scalls>>
  /\ UNCHANGED single
  /\ UNCHANGED app

\* handleSaveApiKey with a valid key: localStorage.setItem
handleSaveApiKey ==
  /\ task = 0
  /\ ~localKey
  /\ localKey' = TRUE
  /\ UNCHANGED <<view, jobs, isProcessing, prompt, sampleFile,
                 urlReads, sampleReads, stamp, runs, task, tcalls, scalls>>
  /\ UNCHANGED single
  /\ app' = [showApiKeyModal |-> FALSE, apiKey |-> ValidKey(1),
             keyError |-> "", storedKey |-> ValidKey(1)]

\* x || '' of an optional text
OrEmpty(o) == IF Present(o) THEN o[1] ELSE <<>>

\* mutant: Status tells whether the extraction went through
ExportRows_ScrapeStatus(js) ==
  [k \in DOMAIN js |->
     [URL |-> js[k].url,
      Status |-> IF js[k].scrapeStatus = "success" THEN "Success" ELSE "Failed",
      OriginalTitle |-> IF Present(js[k].scrapedData)
                          THEN js[k].scrapedData[1].title ELSE <<>>,
      TransformedContent |-> OrEmpty(js[k].transformedData),
      Error |-> OrEmpty(js[k].error)]]
\* mutant: only the jobs that went through are exported
ExportRows_OnlySuccess(js) ==
  LET done == SelectSeq(js, LAMBDA j : j.transformStatus = "success")
  IN [k \in DOMAIN done |->
        [URL |-> done[k].url, Status |-> "Success",
         OriginalTitle |-> done[k].scrapedData[1].title,
         TransformedContent |-> OrEmpty(done[k].transformedData),
         Error |-> OrEmpty(done[k].error)]]
\* downloadResults: the rows handed to XLSX.utils.json_to_sheet
ExportRows(js) ==
  [k \in DOMAIN js |->
     [URL |-> js[k].url,
      Status |-> IF js[k].transformStatus = "success" THEN "Success" ELSE "Failed",
      OriginalTitle |-> IF Present(js[k].scrapedData)
                          THEN js[k].scrapedData[1].title ELSE <<>>,
      TransformedContent |-> OrEmpty(js[k].transformedData),
      Error |-> OrEmpty(js[k].error)]]

\* mutant: the button is shown as soon as the store holds a job
ExportShown_AnyJob(js) == Len(js) > 0
\* the Export Excel button is rendered when
\* jobs.some(j => j.transformStatus === 'success')
ExportShown(js) == \E k \in DOMAIN js : js[k].transformStatus = "success"

\* ------------------------------------------------------------ the pipeline
\* the updates processJob makes to the addressed job
PatchScrapePending(j) == [j EXCEPT !.scrapeStatus = "pending"]
\* mutant: the failed branch records the error and forgets the status
PatchScrapeFailed_NoStatus(j, sd) == [j EXCEPT !.error = sd.error]
\* mutant: the failed branch also marks the transformation, as the catch does
PatchScrapeFailed_Both(j, sd) ==
  [j EXCEPT !.scrapeStatus = "failed", !.transformStatus = "failed",
            !.error = sd.error]
PatchScrapeFailed(j, sd) == [j EXCEPT !.scrapeStatus = "failed", !.error = sd.error]
\* mutant: the result is stored and the status is left pending
PatchScrapeSuccess_NoStatus(j, sd) == [j EXCEPT !.scrapedData = Some(sd)]
PatchScrapeSuccess(j, sd) ==
  [j EXCEPT !.scrapeStatus = "success", !.scrapedData = Some(sd)]
PatchTransformPending(j) == [j EXCEPT !.transformStatus = "pending"]
\* mutant: the status is set and the text is dropped
PatchTransformSuccess_NoData(j, t) == [j EXCEPT !.transformStatus = "success"]
PatchTransformSuccess(j, t) ==
  [j EXCEPT !.transformStatus = "success", !.transformedData = Some(t)]
\* mutant: the catch block marks the job and drops err.message
PatchCatch_NoError(j, msg) ==
  [j EXCEPT !.scrapeStatus = "failed", !.transformStatus = "failed"]
\* mutant: the catch block puts the job back in the queue
PatchCatch_ToIdle(j, msg) ==
  [j EXCEPT !.scrapeStatus = "idle", !.transformStatus = "idle",
            !.error = Some(msg)]
\* mutant: the catch block leaves the status of the transformation alone
PatchCatch_ScrapeOnly(j, msg) ==
  [j EXCEPT !.scrapeStatus = "failed", !.error = Some(msg)]
PatchCatch(j, msg) ==
  [j EXCEPT !.scrapeStatus = "failed", !.transformStatus = "failed",
            !.error = Some(msg)]

\* the six updater functions of processJob; arg is the settled value used
Patch(kind, j, arg) ==
  CASE kind = "scrapePending" -> PatchScrapePending(j)
    [] kind = "scrapeFailed" -> PatchScrapeFailed(j, arg)
    [] kind = "scrapeSuccess" -> PatchScrapeSuccess(j, arg)
    [] kind = "transformPending" -> PatchTransformPending(j)
    [] kind = "transformSuccess" -> PatchTransformSuccess(j, arg)
    [] kind = "catch" -> PatchCatch(j, arg)

\* mutant: the update is applied without comparing the id
MapById_All(js, id, kind, arg) ==
  [k \in DOMAIN js |-> Patch(kind, js[k], arg)]
\* prev.map(j => j.id === job.id ? { ...j, ... } : j)
MapById(js, id, kind, arg) ==
  [k \in DOMAIN js |-> IF js[k].id = id THEN Patch(kind, js[k], arg) ELSE js[k]]

\* setJobs / setIsProcessing called from the closure of run r: they act on
\* the state of the instance that created the closure, if it is still mounted
Mounted(r) == runs[r].mounted
SetJobs(r, id, kind, arg) == IF Mounted(r) THEN MapById(jobs, id, kind, arg) ELSE jobs
\* mutant: the flag is not reset when the loop is over
SetIsProcessing_Keep(r, b) == isProcessing
SetIsProcessing(r, b) == IF Mounted(r) THEN b ELSE isProcessing

CurJob(r) == runs[r].jobs[runs[r].i]

\* mutant: the loop processes every job of the captured array
IsIdle_Any(job) == TRUE
\* if (job.scrapeStatus === 'idle')
IsIdle(job) == job.scrapeStatus = "idle"

\* mutant: the loop is left after the first job it processed
NextIdx_Break(r) == Len(runs[r].jobs) + 1
\* for (const job of jobs): on to the next element
NextIdx(r) == runs[r].i + 1

\* the call logs keep the calls made for the jobs of the displayed store
Ids(js) == {js[k].id : k \in DOMAIN js}
LogCall(log, r, id) ==
  IF Mounted(r) /\ id \in Ids(jobs) THEN log \cup {id} ELSE log

NewRun ==
  [mounted |-> TRUE, jobs |-> jobs, prompt |-> prompt, sampleFile |-> sampleFile,
   i |-> 1, pc |-> "loop", sres |-> None, targ |-> None, tres |-> None]

\* startProcessing has returned: nothing refers to its closure any more
DoneRun ==
  [mounted |-> FALSE, jobs |-> <<>>, prompt |-> <<>>, sampleFile |-> None,
   i |-> 1, pc |-> "done", sres |-> None, targ |-> None, tres |-> None]

\* mutant: the run starts with an empty store
CanStart_NoJobsCheck(js, p, sf) == HasSpec(p, sf)
\* mutant: the run starts without prompt and sample
CanStart_NoSpecCheck(js, p, sf) == Len(js) # 0
\* the two early returns of startProcessing (and the disabled state of the
\* button): a store with jobs and a prompt or a sample
CanStart(js, p, sf) == Len(js) # 0 /\ HasSpec(p, sf)

\* the Start Batch button (disabled while isProcessing, with no jobs or with
\* neither prompt nor sample): startProcessing up to the for loop
startProcessing ==
  /\ task = 0
  /\ view = "BULK"
  /\ ~isProcessing
  /\ CanStart(jobs, prompt, sampleFile)
  /\ Len(runs) < MaxRuns
  /\ runs' = Append(runs, NewRun)
  /\ isProcessing' = TRUE
  /\ task' = Len(runs) + 1
  /\ UNCHANGED <<view, jobs, prompt, sampleFile, localKey,
                 urlReads, sampleReads, stamp, tcalls, scalls>>
  /\ UNCHANGED single
  /\ UNCHANGED app

\* for (const job of jobs): the next element of the captured array; an idle
\* one enters processJob (pending, then the scrapeUrl call), and after the
\* last one setIsProcessing(false)
LoopNext(r) ==
  /\ task = r
  /\ runs[r].pc = "loop"
  /\ IF runs[r].i > Len(runs[r].jobs)
       THEN /\ isProcessing' = SetIsProcessing(r, FALSE)
            /\ runs' = [runs EXCEPT ![r] = DoneRun]
            /\ task' = 0
            /\ UNCHANGED <<jobs, scalls>>
       ELSE IF ~IsIdle(CurJob(r))
       THEN /\ runs' = [runs EXCEPT ![r].i = NextIdx(r)]
            /\ UNCHANGED <<jobs, isProcessing, task, scalls>>
       ELSE /\ jobs' = SetJobs(r, CurJob(r).id, "scrapePending", None)
            /\ scalls' = LogCall(scalls, r, CurJob(r).id)
            /\ IF HasKey
                 THEN /\ runs' = [runs EXCEPT ![r].pc = "awaitScrape"]
                      /\ task' = 0
                 ELSE /\ runs' = [runs EXCEPT ![r].pc = "scraped",
                        ![r].sres = Some(scrapeUrl(CurJob(r).url, FALSE, "text"))]
                      /\ task' = task
            /\ UNCHANGED isProcessing
  /\ UNCHANGED <<view, prompt, sampleFile, localKey,
                 urlReads, sampleReads, stamp, tcalls>>
  /\ UNCHANGED single
  /\ UNCHANGED app

\* the generateContent call behind scrapeUrl settles
ScrapeSettles(r, o) ==
  /\ task = 0
  /\ runs[r].pc = "awaitScrape"
  /\ runs' = [runs EXCEPT ![r].pc = "scraped",
                          ![r].sres = Some(scrapeUrl(CurJob(r).url, TRUE, o))]
  /\ task' = r
  /\ UNCHANGED <<view, jobs, isProcessing, prompt, sampleFile,
                 localKey, urlReads, sampleReads, stamp, tcalls, scalls>>
  /\ UNCHANGED single
  /\ UNCHANGED app

\* processJob after await scrapeUrl: the failed branch returns, otherwise the
\* result is stored
AfterScrape(r) ==
  /\ task = r
  /\ runs[r].pc = "scraped"
  /\ LET sd == runs[r].sres[1]
     IN IF sd.status = "failed"
          THEN /\ jobs' = SetJobs(r, CurJob(r).id, "scrapeFailed", sd)
               /\ runs' = [runs EXCEPT ![r].pc = "loop", ![r].i = NextIdx(r),
                                       ![r].sres = None]
          ELSE /\ jobs' = SetJobs(r, CurJob(r).id, "scrapeSuccess", sd)
               /\ runs' = [runs EXCEPT ![r].pc = "extracted"]
  /\ UNCHANGED <<view, isProcessing, prompt, sampleFile, localKey,
                 urlReads, sampleReads, stamp, task, tcalls, scalls>>
  /\ UNCHANGED single
  /\ UNCHANGED app

\* mutant: prompt and sample are read from the state of the instance at the
\* time of the call
TransformArgs_Current(r) ==
  [content |-> runs[r].sres[1].content, prompt |-> prompt,
   sample |-> IF Present(sampleFile) THEN Some(sampleFile[1].content) ELSE None]
\* mutant: the sample is not handed to transformContent
TransformArgs_NoSample(r) ==
  [content |-> runs[r].sres[1].content, prompt |-> runs[r].prompt,
   sample |-> None]
\* the arguments of the call: scrapedData.content, prompt, sampleFile?.content
\* with prompt and sampleFile of the closure
TransformArgs(r) ==
  [content |-> runs[r].sres[1].content, prompt |-> runs[r].prompt,
   sample |-> IF Present(runs[r].sampleFile)
                THEN Some(runs[r].sampleFile[1].content) ELSE None]

\* if (prompt || sampleFile): pending, then the transformContent call
BeginTransform(r) ==
  /\ task = r
  /\ runs[r].pc = "extracted"
  /\ IF HasSpec(runs[r].prompt, runs[r].sampleFile)
       THEN /\ jobs' = SetJobs(r, CurJob(r).id, "transformPending", None)
            /\ tcalls' = LogCall(tcalls, r, CurJob(r).id)
            /\ IF HasKey
                 THEN /\ runs' = [runs EXCEPT ![r].pc = "awaitTransform",
                                     ![r].targ = Some(TransformArgs(r))]
                      /\ task' = 0
                 ELSE /\ runs' = [runs EXCEPT ![r].pc = "transformed",
                                     ![r].targ = Some(TransformArgs(r)),
                                     ![r].tres = Some(transformContent(FALSE, "text"))]
                      /\ task' = task
       ELSE /\ runs' = [runs EXCEPT ![r].pc = "loop", ![r].i = NextIdx(r),
                                    ![r].sres = None]
            /\ UNCHANGED <<jobs, tcalls, task>>
  /\ UNCHANGED <<view, isProcessing, prompt, sampleFile, localKey,
                 urlReads, sampleReads, stamp, scalls>>
  /\ UNCHANGED single
  /\ UNCHANGED app

\* the generateContent call behind transformContent settles
TransformSettles(r, o) ==
  /\ task = 0
  /\ runs[r].pc = "awaitTransform"
  /\ runs' = [runs EXCEPT ![r].pc = "transformed",
                          ![r].tres = Some(transformContent(TRUE, o))]
  /\ task' = r
  /\ UNCHANGED <<view, jobs, isProcessing, prompt, sampleFile,
                 localKey, urlReads, sampleReads, stamp, tcalls, scalls>>
  /\ UNCHANGED single
  /\ UNCHANGED app

\* processJob after await transformContent: the result is stored, or the
\* catch block records the error
AfterTransform(r) ==
  /\ task = r
  /\ runs[r].pc = "transformed"
  /\ LET t == runs[r].tres[1]
     IN jobs' = IF t.thrown THEN SetJobs(r, CurJob(r).id, "catch", t.val)
                            ELSE SetJobs(r, CurJob(r).id, "transformSuccess", t.val)
  /\ runs' = [runs EXCEPT ![r].pc = "loop", ![r].i = NextIdx(r),
                          ![r].sres = None, ![r].targ = None, ![r].tres = None]
  /\ UNCHANGED <<view, isProcessing, prompt, sampleFile, localKey,
                 urlReads, sampleReads, stamp, task, tcalls, scalls>>
  /\ UNCHANGED single
  /\ UNCHANGED app

\* the answers of the transformation request: every text of up to MaxText
\* characters made of the markup characters, a letter, a blank and a line
\* break
TextAlphabet == {"*", "_", "#", "a", " ", "\n"}
RECURSIVE TextsOfLen(_)
TextsOfLen(n) ==
  IF n = 0 THEN {""}
  ELSE {c \o t : c \in TextAlphabet, t \in TextsOfLen(n - 1)}
RawTexts == UNION {TextsOfLen(n) : n \in 0..MaxText}

\* answers wrapped in a code block: the opening fence with or without a
\* language tag, a body, the closing fence, and up to MaxPad characters of
\* white space before and after the block
RECURSIVE PadsOfLen(_)
PadsOfLen(n) ==
  IF n = 0 THEN {""} ELSE {c \o t : c \in {" ", "\n"}, t \in PadsOfLen(n - 1)}
Pads == UNION {PadsOfLen(n) : n \in 0..MaxPad}
FenceTags == {"", "json"}
FencedTexts ==
  {before \o Fence \o tag \o "\n" \o "a b" \o "\n" \o Fence \o after :
     before \in Pads, tag \in FenceTags, after \in Pads}

\* the generateContent call behind transformContent answers with the text
\* raw: transformContent returns it post-processed
TransformAnswers(r, raw) ==
  /\ task = 0
  /\ runs[r].pc = "awaitTransform"
  /\ runs' = [runs EXCEPT
                ![r].pc = "transformed",
                ![r].tres = Some(Resolved(PostProcess(raw, runs[r].targ[1].prompt,
                                                      runs[r].targ[1].sample)))]
  /\ task' = r
  /\ UNCHANGED <<view, jobs, isProcessing, prompt, sampleFile,
                 localKey, urlReads, sampleReads, stamp, tcalls, scalls>>
  /\ UNCHANGED single
  /\ UNCHANGED app

\* ------------------------------------------------------ the single URL view
\* the bulk view's variables, which the single URL view leaves alone
bulkVars == <<jobs, isProcessing, prompt, sampleFile, localKey,
              urlReads, sampleReads, stamp, runs, task, tcalls, scalls>>
SingleUrls == {<<>>, <<"a">>}

\* the url input of step 1
SetUrl(u) ==
  /\ view = "SINGLE"
  /\ single.step = 1
  /\ u # single.url
  /\ single' = [single EXCEPT !.url = u]
  /\ UNCHANGED <<view, bulkVars>>
  /\ UNCHANGED app

\* handleScrape up to await scrapeUrl(url); the submit button is disabled
\* while loading
handleScrape ==
  /\ view = "SINGLE"
  /\ single.step = 1
  /\ ~single.loading
  /\ single.url # <<>>
  /\ single' = [single EXCEPT !.loading = TRUE, !.error = None,
                              !.pc = "awaitScrape", !.target = single.url,
                              !.keyed = HasKey]
  /\ UNCHANGED <<view, bulkVars>>
  /\ UNCHANGED app

\* mutant: a failed result is stored like any other
handleScrapeResume_NoThrow(s, data) ==
  [s EXCEPT !.scrapedData = Some(data), !.step = 2, !.loading = FALSE,
            !.pc = "idle", !.target = <<>>]
\* handleScrape after the await: throw on a failed result, else
\* setScrapedData and setStep(2); catch: setError(err.message); finally:
\* setLoading(false)
handleScrapeResume(s, data) ==
  IF data.status = "failed"
    THEN [s EXCEPT !.error = Some(IF OrEmpty(data.error) # <<>>
                                    THEN data.error[1]
                                    ELSE <<"Failed to extract content">>),
                   !.loading = FALSE, !.pc = "idle", !.target = <<>>]
    ELSE [s EXCEPT !.scrapedData = Some(data), !.step = 2, !.loading = FALSE,
                   !.pc = "idle", !.target = <<>>]

\* scrapeUrl returns to handleScrape
SingleScrapeSettles(o) ==
  /\ view = "SINGLE"
  /\ single.pc = "awaitScrape"
  /\ single' = handleScrapeResume(single, scrapeUrl(single.target, single.keyed, o))
  /\ UNCHANGED <<view, bulkVars>>
  /\ UNCHANGED app

\* the prompt textarea of step 2
SingleSetPrompt(p) ==
  /\ view = "SINGLE"
  /\ single.step = 2
  /\ p # single.prompt
  /\ single' = [single EXCEPT !.prompt = p]
  /\ UNCHANGED <<view, bulkVars>>
  /\ UNCHANGED app

\* reader.onload of a sample chosen in step 2: setSampleFile
SingleSampleOnload(c) ==
  /\ view = "SINGLE"
  /\ single.step = 2
  /\ single.sampleFile # Some([content |-> c])
  /\ single' = [single EXCEPT !.sampleFile = Some([content |-> c])]
  /\ UNCHANGED <<view, bulkVars>>
  /\ UNCHANGED app

\* handleTransform up to await transformContent(...); the button is disabled
\* while loading and without prompt and sample
handleTransform ==
  /\ view = "SINGLE"
  /\ single.step = 2
  /\ Present(single.scrapedData)
  /\ ~single.loading
  /\ HasSpec(single.prompt, single.sampleFile)
  /\ single' = [single EXCEPT !.loading = TRUE, !.pc = "awaitTransform",
                              !.keyed = HasKey]
  /\ UNCHANGED <<view, bulkVars>>
  /\ UNCHANGED app

\* mutant: without the finally block, a failure leaves loading set
handleTransformResume_NoFinally(s, t) ==
  IF t.thrown
    THEN [s EXCEPT !.error = Some(t.val), !.pc = "idle"]
    ELSE [s EXCEPT !.result = t.val, !.step = 3, !.loading = FALSE,
                   !.pc = "idle"]
\* handleTransform after the await: setResult and setStep(3); catch:
\* setError(err.message); finally: setLoading(false)
handleTransformResume(s, t) ==
  IF t.thrown
    THEN [s EXCEPT !.error = Some(t.val), !.loading = FALSE, !.pc = "idle"]
    ELSE [s EXCEPT !.result = t.val, !.step = 3, !.loading = FALSE,
                   !.pc = "idle"]

\* transformContent returns to handleTransform or throws
SingleTransformSettles(o) ==
  /\ view = "SINGLE"
  /\ single.pc = "awaitTransform"
  /\ single' = handleTransformResume(single, transformContent(single.keyed, o))
  /\ UNCHANGED <<view, bulkVars>>
  /\ UNCHANGED app

\* the New button of step 3: setStep(1)
StartOver ==
  /\ view = "SINGLE"
  /\ single.step = 3
  /\ single' = [single EXCEPT !.step = 1]
  /\ UNCHANGED <<view, bulkVars>>
  /\ UNCHANGED app

\* ------------------------------------------------------------ the API key
\* what is typed or pasted in the key input: nothing, a prefix alone, a key
\* of 30 characters, keys of 31 and more, a long text with another prefix,
\* each with up to MaxPad blanks before and after
KeyBodies ==
  {"", "AIza", "AIza" \o Repeat("k", 26), "sk-" \o Repeat("k", 28)}
    \cup {ValidKey(n) : n \in 1..MaxKeys}
KeyPads == {Repeat(" ", n) : n \in 0..MaxPad}
KeyInputs == {b \o k \o a : b \in KeyPads, k \in KeyBodies, a \in KeyPads}

\* validateApiKey (App.tsx 42-46)
validateApiKey(key) ==
  StartsWith(TrimText(key), 1, "AIza") /\ Len(TrimText(key)) > 30

\* the Settings button of the header, which the open modal covers
OpenSettings ==
  /\ ~app.showApiKeyModal
  /\ app' = [app EXCEPT !.showApiKeyModal = TRUE, !.keyError = "",
                        !.apiKey = app.storedKey]
  /\ UNCHANGED <<view, bulkVars, single>>

\* handleApiKeyChange (App.tsx 48-68)
KeyErrorOf(value) ==
  IF TrimText(value) = "" THEN ""
  ELSE IF ~StartsWith(TrimText(value), 1, "AIza")
    THEN "Invalid format. Google API Keys must start with \"AIza\"."
  ELSE IF Len(TrimText(value)) <= 30 THEN "Key appears to be too short."
  ELSE ""
handleApiKeyChange(value) ==
  /\ app.showApiKeyModal
  /\ value # app.apiKey
  /\ app' = [app EXCEPT !.apiKey = value, !.keyError = KeyErrorOf(value)]
  /\ UNCHANGED <<view, bulkVars, single>>

\* mutant: the key is stored as it was typed
SaveApiKey_Untrimmed(a, key) ==
  IF TrimText(key) = "" THEN [a EXCEPT !.keyError = "API Key cannot be empty."]
  ELSE IF ~validateApiKey(TrimText(key))
    THEN [a EXCEPT !.keyError =
            IF ~StartsWith(TrimText(key), 1, "AIza")
              THEN "Invalid API Key format. Must start with \"AIza\"."
              ELSE "Invalid API Key. Length is too short."]
  ELSE [showApiKeyModal |-> FALSE, apiKey |-> key, keyError |-> "",
        storedKey |-> key]
\* handleSaveApiKey(key) (App.tsx 70-93)
SaveApiKey(a, key) ==
  LET trimmedKey == TrimText(key)
  IN IF trimmedKey = "" THEN [a EXCEPT !.keyError = "API Key cannot be empty."]
     ELSE IF ~validateApiKey(trimmedKey)
       THEN [a EXCEPT !.keyError =
               IF ~StartsWith(trimmedKey, 1, "AIza")
                 THEN "Invalid API Key format. Must start with \"AIza\"."
                 ELSE "Invalid API Key. Length is too short."]
     ELSE [showApiKeyModal |-> FALSE, apiKey |-> trimmedKey, keyError |-> "",
           storedKey |-> trimmedKey]

\* the form of the modal is submitted (App.tsx 158): handleSaveApiKey(apiKey);
\* the Save button is disabled while keyError is shown or the input is empty
SubmitApiKey ==
  /\ app.showApiKeyModal
  /\ app.keyError = ""
  /\ app.apiKey # ""
  /\ app' = SaveApiKey(app, app.apiKey)
  /\ localKey' = (app'.storedKey # "")
  /\ UNCHANGED <<view, jobs, isProcessing, prompt, sampleFile,
                 urlReads, sampleReads, stamp, runs, task, tcalls, scalls,
                 single>>

\* mutant: the X button is always there
CanCloseModal_Always(a) == TRUE
\* the X button of the modal is rendered when localStorage holds a key
CanCloseModal(a) == a.storedKey # ""
CloseModal ==
  /\ app.showApiKeyModal
  /\ CanCloseModal(app)
  /\ app' = [app EXCEPT !.showApiKeyModal = FALSE, !.keyError = "",
                        !.apiKey = app.storedKey]
  /\ UNCHANGED <<view, bulkVars, single>>

\* the texts of an extraction: up to MaxLines lines, the first one blank,
\* short, labelled, or 99 or 100 characters long, the others blank, short or
\* labelled
FirstLines == {" ", "Lamp", "TITLE: Desk ", Repeat("x", 99), Repeat("x", 100)}
OtherLines == {" ", "Lamp", "Product name:Bed"}
RECURSIVE TextsOfLines(_)
TextsOfLines(n) ==
  IF n = 1 THEN FirstLines
  ELSE {t \o "\n" \o l : t \in TextsOfLines(n - 1), l \in OtherLines}
PageTexts == UNION {TextsOfLines(n) : n \in 1..MaxLines}

\* the generateContent call behind scrapeUrl answers with a text
ScrapeAnswers(r) ==
  /\ task = 0
  /\ runs[r].pc = "awaitScrape"
  /\ \E extractedText \in PageTexts :
       runs' = [runs EXCEPT
                  ![r].pc = "scraped",
                  ![r].sres = Some(scrapeUrlText(CurJob(r).url, extractedText))]
  /\ task' = r
  /\ UNCHANGED <<view, jobs, isProcessing, prompt, sampleFile,
                 localKey, urlReads, sampleReads, stamp, tcalls, scalls>>
  /\ UNCHANGED single
  /\ UNCHANGED app

\* the sample file input of the mounted instance
SampleStep ==
  \/ handleSampleFileUpload
  \/ \E c \in SampleContents : SampleReaderOnload(c)
  \/ RemoveSample

\* the batch pipeline driven by a typed prompt
Next ==
  \/ \E v \in Views : Navigate(v)
  \/ handleUrlFileUpload
  \/ \E rows \in RowLists : UrlReaderOnload(rows)
  \/ ClearJobs
  \/ \E p \in Prompts : SetPrompt(p)
  \/ handleSaveApiKey
  \/ startProcessing
  \/ \E r \in DOMAIN runs : LoopNext(r)
  \/ \E r \in DOMAIN runs, o \in ScrapeOutcomes : ScrapeSettles(r, o)
  \/ \E r \in DOMAIN runs : AfterScrape(r)
  \/ \E r \in DOMAIN runs : BeginTransform(r)
  \/ \E r \in DOMAIN runs, o \in TransformOutcomes : TransformSettles(r, o)
  \/ \E r \in DOMAIN runs : AfterTransform(r)

Spec == Init /\ [][Next]_vars

\* the same with the sample file input and with every outcome of the service
NextFull ==
  \/ Next
  \/ SampleStep
  \/ \E r \in DOMAIN runs, o \in SvcOutcomes : ScrapeSettles(r, o)
  \/ \E r \in DOMAIN runs, o \in SvcOutcomes : TransformSettles(r, o)

SpecFull == Init /\ [][NextFull]_vars

\* the batch pipeline with every outcome of the extraction request
NextSvc ==
  \/ Next
  \/ \E r \in DOMAIN runs, o \in SvcOutcomes : ScrapeSettles(r, o)

SpecSvc == Init /\ [][NextSvc]_vars

\* the steps of the runs
RunStep ==
  \/ \E r \in DOMAIN runs : LoopNext(r)
  \/ \E r \in DOMAIN runs, o \in ScrapeOutcomes : ScrapeSettles(r, o)
  \/ \E r \in DOMAIN runs : AfterScrape(r)
  \/ \E r \in DOMAIN runs : BeginTransform(r)
  \/ \E r \in DOMAIN runs, o \in TransformOutcomes : TransformSettles(r, o)
  \/ \E r \in DOMAIN runs : AfterTransform(r)

\* the batch pipeline driven by a sample file, the prompt left empty
NextSample ==
  \/ \E v \in Views : Navigate(v)
  \/ handleUrlFileUpload
  \/ \E rows \in RowLists : UrlReaderOnload(rows)
  \/ ClearJobs
  \/ handleSampleFileUpload
  \/ \E c \in SampleContents : SampleReaderOnload(c)
  \/ RemoveSample
  \/ handleSaveApiKey
  \/ startProcessing
  \/ RunStep

SpecSample == Init /\ [][NextSample]_vars

\* the cells of the URL column of any sheet: absent, a URL with surrounding
\* blanks, a URL, a cell of blanks only
SheetCells == Cells \cup {<<"b">>, <<" ">>}
SheetRows == [1..MaxRows -> SheetCells]

\* loading URL lists of any content
NextCreate ==
  \/ \E v \in Views : Navigate(v)
  \/ handleUrlFileUpload
  \/ \E rows \in SheetRows : UrlReaderOnload(rows)
  \/ ClearJobs

SpecCreate == Init /\ [][NextCreate]_vars

\* the continuation of an await runs as soon as its promise has settled, and
\* every request to the service is answered or rejected in the end
\* The batches are lists in which every row has a URL.
FullRowLists == {rows \in RowLists : \A k \in DOMAIN rows : rows[k] # <<>>}

NextLive ==
  \/ \E v \in {"HOME", "BULK"} : Navigate(v)
  \/ handleUrlFileUpload
  \/ \E rows \in FullRowLists : UrlReaderOnload(rows)
  \/ \E p \in Prompts \ {<<>>} : SetPrompt(p)
  \/ startProcessing
  \/ RunStep

SpecLive == Init /\ [][NextLive]_vars /\ WF_vars(RunStep)

\* lists with one URL, in the last row
OneUrlLists ==
  {rows \in RowLists : \A k \in DOMAIN rows : k < Len(rows) => rows[k] = <<>>}
TextPrompts == {<<"summarize">>, <<"as ", "Markdown">>}

\* one job at a time, extracted and then transformed with any answer of the
\* service
NextText ==
  \/ Navigate("BULK")
  \/ handleUrlFileUpload
  \/ \E rows \in OneUrlLists : UrlReaderOnload(rows)
  \/ \E p \in TextPrompts : SetPrompt(p)
  \/ handleSampleFileUpload
  \/ \E c \in SampleContents : SampleReaderOnload(c)
  \/ startProcessing
  \/ \E r \in DOMAIN runs : LoopNext(r)
  \/ \E r \in DOMAIN runs : ScrapeSettles(r, "text")
  \/ \E r \in DOMAIN runs : AfterScrape(r)
  \/ \E r \in DOMAIN runs : BeginTransform(r)
  \/ \E r \in DOMAIN runs, raw \in RawTexts : TransformAnswers(r, raw)
  \/ \E r \in DOMAIN runs : AfterTransform(r)

SpecText == Init /\ [][NextText]_vars

\* batches started with a prompt while a sample file may still be read
NextClosure ==
  \/ Navigate("BULK")
  \/ handleUrlFileUpload
  \/ \E rows \in FullRowLists : UrlReaderOnload(rows)
  \/ \E p \in Prompts \ {<<>>} : SetPrompt(p)
  \/ handleSampleFileUpload
  \/ \E c \in SampleContents : SampleReaderOnload(c)
  \/ startProcessing
  \/ RunStep

SpecClosure == Init /\ [][NextClosure]_vars

\* the key modal of App
NextKey ==
  \/ OpenSettings
  \/ \E value \in KeyInputs : handleApiKeyChange(value)
  \/ SubmitApiKey
  \/ CloseModal

SpecKey == Init /\ [][NextKey]_vars

\* the single URL view
NextSingle ==
  \/ \E v \in Views : Navigate(v)
  \/ handleSaveApiKey
  \/ \E u \in SingleUrls : SetUrl(u)
  \/ handleScrape
  \/ \E o \in ScrapeOutcomes : SingleScrapeSettles(o)
  \/ \E p \in Prompts : SingleSetPrompt(p)
  \/ \E c \in SampleContents : SingleSampleOnload(c)
  \/ handleTransform
  \/ \E o \in TransformOutcomes : SingleTransformSettles(o)
  \/ StartOver

SpecSingle == Init /\ [][NextSingle]_vars

\* one job at a time, transformed with any answer that is a code block
NextFence ==
  \/ Navigate("BULK")
  \/ handleUrlFileUpload
  \/ \E rows \in OneUrlLists : UrlReaderOnload(rows)
  \/ \E p \in TextPrompts : SetPrompt(p)
  \/ startProcessing
  \/ \E r \in DOMAIN runs : LoopNext(r)
  \/ \E r \in DOMAIN runs : ScrapeSettles(r, "text")
  \/ \E r \in DOMAIN runs : AfterScrape(r)
  \/ \E r \in DOMAIN runs : BeginTransform(r)
  \/ \E r \in DOMAIN runs, raw \in FencedTexts : TransformAnswers(r, raw)
  \/ \E r \in DOMAIN runs : AfterTransform(r)

SpecFence == Init /\ [][NextFence]_vars

\* one job at a time, up to the return of scrapeUrl with any text of the
\* service
NextTitle ==
  \/ Navigate("BULK")
  \/ handleUrlFileUpload
  \/ \E rows \in OneUrlLists : UrlReaderOnload(rows)
  \/ \E p \in Prompts \ {<<>>} : SetPrompt(p)
  \/ startProcessing
  \/ \E r \in DOMAIN runs : LoopNext(r)
  \/ \E r \in DOMAIN runs : ScrapeAnswers(r)

SpecTitle == Init /\ [][NextTitle]_vars

\* the steps a run takes by itself: the code after an await that has settled
Continuation ==
  \/ \E r \in DOMAIN runs : LoopNext(r)
  \/ \E r \in DOMAIN runs : AfterScrape(r)
  \/ \E r \in DOMAIN runs : BeginTransform(r)
  \/ \E r \in DOMAIN runs : AfterTransform(r)

\* the same batches when nothing is known about the service: a request may
\* stay without answer, the code of the run itself always runs on
SpecWait == Init /\ [][NextLive]_vars /\ WF_vars(Continuation)

\* ------------------------------------------------------------------ claims
\* the terminal states of the per-job machine: ExtractionFailed, JobComplete
\* (extracted, nothing to transform), TransformSucceeded, TransformFailed
TerminalState(j, hasSpec) ==
  \/ j.scrapeStatus = "failed"
  \/ j.transformStatus \in {"success", "failed"}
  \/ j.scrapeStatus = "success" /\ ~hasSpec

\* run r took the job with this id from the store it was started on
PickedUp(r, id) ==
  /\ r \in DOMAIN runs
  /\ \E n \in DOMAIN runs[r].jobs :
       runs[r].jobs[n].id = id /\ runs[r].jobs[n].scrapeStatus = "idle"

RunHasSpec(r) == r \in DOMAIN runs /\ HasSpec(runs[r].prompt, runs[r].sampleFile)

\* position k holds the same job before and after the step
SameJob(k) == k \in DOMAIN jobs /\ k \in DOMAIN jobs' /\ jobs'[k].id = jobs[k].id

Outstanding == {r \in DOMAIN runs : runs[r].pc \in {"awaitScrape", "awaitTransform"}}

\* C1: a step of a run that sets a job's extraction to Pending, or that makes
\* a job terminal, is taken when every earlier job of the store that the run
\* picked up is already terminal.
C1_StrictlySequential ==
  [][\A k \in DOMAIN jobs :
       ( /\ SameJob(k)
         /\ \/ jobs[k].scrapeStatus # "pending" /\ jobs'[k].scrapeStatus = "pending"
            \/ /\ ~TerminalState(jobs[k], RunHasSpec(task))
               /\ TerminalState(jobs'[k], RunHasSpec(task)) )
       => \A m \in 1..(k - 1) :
            PickedUp(task, jobs[m].id) => TerminalState(jobs[m], RunHasSpec(task))]_vars

\* the second job is being extracted after the first one finished
C1_Witness ==
  /\ Len(jobs) >= 2
  /\ isProcessing
  /\ jobs[2].scrapeStatus = "pending"
  /\ jobs[1].transformStatus \in {"success", "failed"}

\* C2: at most one extraction or transformation request of the batch
\* pipeline is outstanding at any instant.
C2_OneOutstanding == Cardinality(Outstanding) <= 1

\* C3: when a run ends, every job it picked up that is still in the store is
\* terminal, whatever failed on the way: no failure ends the loop early.
C3_FailureDoesNotAbort ==
  [][\A r \in DOMAIN runs :
       (runs[r].pc = "loop" /\ runs'[r].pc = "done")
       => \A k \in DOMAIN jobs' :
            PickedUp(r, jobs'[k].id) => TerminalState(jobs'[k], RunHasSpec(r))]_vars

\* a finished run whose first job failed and whose second job went through
C3_Witness ==
  /\ Len(jobs) >= 2
  /\ ~isProcessing
  /\ \E r \in DOMAIN runs : runs[r].pc = "done"
  /\ jobs[1].scrapeStatus = "failed"
  /\ jobs[2].transformStatus = "success"

\* C4: a stage that is Success or Failed keeps its state and its payload, in
\* particular a failing transformer leaves the extraction at Success.
C4_TerminalStageStable ==
  [][\A k \in DOMAIN jobs :
       SameJob(k) =>
         /\ jobs[k].scrapeStatus \in {"success", "failed"}
              => /\ jobs'[k].scrapeStatus = jobs[k].scrapeStatus
                 /\ jobs'[k].scrapedData = jobs[k].scrapedData
         /\ jobs[k].transformStatus \in {"success", "failed"}
              => /\ jobs'[k].transformStatus = jobs[k].transformStatus
                 /\ jobs'[k].transformedData = jobs[k].transformedData]_vars

\* C5: scrapedData is present exactly when scrapeStatus is success.
C5_ExtractedIffSuccess ==
  \A k \in DOMAIN jobs :
    Present(jobs[k].scrapedData) <=> jobs[k].scrapeStatus = "success"

\* C6: transformedData is present exactly when transformStatus is success.
C6_TransformedIffSuccess ==
  \A k \in DOMAIN jobs :
    Present(jobs[k].transformedData) <=> jobs[k].transformStatus = "success"

\* a job whose transformation succeeded, next to one whose transformation failed
C6_Witness ==
  /\ \E k \in DOMAIN jobs : jobs[k].transformStatus = "success"
  /\ \E k \in DOMAIN jobs : jobs[k].transformStatus = "failed"

\* C7: transformStatus leaves idle only in a state where scrapeStatus is
\* success, and a job whose extraction is idle, pending or failed has
\* transformStatus idle.
C7_TransformAfterExtraction ==
  /\ [][\A k \in DOMAIN jobs :
          (SameJob(k) /\ jobs[k].transformStatus = "idle"
             /\ jobs'[k].transformStatus # "idle")
          => jobs[k].scrapeStatus = "success"]_vars
  /\ [](\A k \in DOMAIN jobs :
          jobs[k].scrapeStatus # "success" => jobs[k].transformStatus = "idle")

\* C8: no job has both stages pending.
C8_NotBothPending ==
  \A k \in DOMAIN jobs :
    ~(jobs[k].scrapeStatus = "pending" /\ jobs[k].transformStatus = "pending")

\* a job that is being transformed
C8_Witness ==
  \E k \in DOMAIN jobs :
    jobs[k].transformStatus = "pending" /\ jobs[k].scrapeStatus = "success"

\* C9: error is present exactly when one of the two stages is failed.
C9_ErrorIffFailed ==
  \A k \in DOMAIN jobs :
    Present(jobs[k].error)
      <=> (jobs[k].scrapeStatus = "failed" \/ jobs[k].transformStatus = "failed")

\* a job failed in extraction, one failed in transformation, both with a message
C9_Witness ==
  /\ \E k \in DOMAIN jobs :
       jobs[k].scrapeStatus = "failed" /\ jobs[k].transformStatus = "idle"
         /\ Present(jobs[k].error)
  /\ \E k \in DOMAIN jobs :
       jobs[k].transformStatus = "failed" /\ Present(jobs[k].error)

\* C10: when scrapeUrl reports failed with error E, processJob records
\* failed and E on that job alone, leaves its transformStatus idle, calls no
\* transformer and the loop goes on with the next job; transformContent is
\* never called for a job in that state.
C10_ExtractionFailure ==
  /\ [][\A r \in DOMAIN runs :
          ( /\ runs[r].pc = "scraped"
            /\ runs[r].sres[1].status = "failed"
            /\ runs'[r] # runs[r] )
          => /\ runs'[r].pc = "loop"
             /\ runs'[r].i = runs[r].i + 1
             /\ tcalls' = tcalls
             /\ Len(jobs') = Len(jobs)
             /\ \A k \in DOMAIN jobs :
                  IF Mounted(r) /\ jobs[k].id = CurJob(r).id
                    THEN jobs'[k] = [jobs[k] EXCEPT !.scrapeStatus = "failed",
                                                    !.error = runs[r].sres[1].error]
                    ELSE jobs'[k] = jobs[k]]_vars
  /\ [](\A k \in DOMAIN jobs :
          (jobs[k].scrapeStatus = "failed" /\ jobs[k].transformStatus = "idle")
          => /\ jobs[k].id \notin tcalls
             /\ Present(jobs[k].error))

\* the extractor failed for the first job and the second one was transformed
C10_Witness ==
  /\ Len(jobs) >= 2
  /\ jobs[1].scrapeStatus = "failed"
  /\ jobs[1].transformStatus = "idle"
  /\ jobs[1].error = Some(NullTypeErrorMsg)
  /\ jobs[1].id \notin tcalls
  /\ jobs[2].transformStatus = "success"
  /\ jobs[2].id \in tcalls

\* the ways the extraction request itself fails: no text in the answer (a
\* blocked or unknown page) or a rejection (network, service, key)
FailedExtractions == SvcOutcomes \ {"text"}

\* C11: when the extraction request fails, the job is recorded with
\* scrapeStatus failed and the cause as error; the text of the failure is
\* never stored as the extracted content of a successful job, and never
\* reaches the transformer.
C11_FailureNotContent ==
  \A k \in DOMAIN jobs : \A o \in FailedExtractions :
    /\ jobs[k].scrapeStatus = "success"
         => jobs[k].scrapedData # Some(scrapeUrl(jobs[k].url, TRUE, o))
    /\ \A r \in DOMAIN runs :
         (runs[r].pc \in {"awaitTransform", "transformed"} /\ Mounted(r)
            /\ CurJob(r).id = jobs[k].id)
         => runs[r].sres # Some(scrapeUrl(jobs[k].url, TRUE, o))

\* C12: with no API key available the run is blocked before any job starts:
\* no step taken while the key is missing moves a job out of idle or marks a
\* job failed.  (A stored key is never removed, so a key missing at a step
\* was missing when the run was started.)
C12_MissingKeyBlocksRun ==
  [][~HasKey =>
       \A k \in DOMAIN jobs :
         SameJob(k) =>
           /\ jobs[k].scrapeStatus = "idle" => jobs'[k].scrapeStatus = "idle"
           /\ jobs[k].transformStatus = "idle" => jobs'[k].transformStatus = "idle"
           /\ jobs[k].scrapeStatus # "failed" => jobs'[k].scrapeStatus # "failed"
           /\ jobs[k].transformStatus # "failed"
                => jobs'[k].transformStatus # "failed"]_vars

\* the ids of a store, in store order
IdSeq(js) == [k \in DOMAIN js |-> js[k].id]

\* C13: while a run of the displayed instance is in progress no step changes
\* the sequence of job ids of its store: nothing is removed, added,
\* reordered, cleared or replaced, also not by a URL list read that was
\* started before the run.
C13_StoreFixedDuringRun ==
  [][(isProcessing /\ view' = view) => IdSeq(jobs') = IdSeq(jobs)]_vars

\* C14: a run leaves alone every job that was not idle in the store it was
\* started on: its steps do not change such a job and call neither scrapeUrl
\* nor transformContent for it; a run started on a store of terminal jobs
\* therefore makes no call and changes nothing.
C14_SkipsNonIdle ==
  [][task # 0 =>
       /\ \A k \in DOMAIN jobs :
            (SameJob(k) /\ ~PickedUp(task, jobs[k].id)) => jobs'[k] = jobs[k]
       /\ \A id \in (scalls' \ scalls) \cup (tcalls' \ tcalls) :
            PickedUp(task, id)]_vars

\* a second run on a store of finished jobs has passed all of them
C14_Witness ==
  \E r \in DOMAIN runs :
    /\ r > 1
    /\ Mounted(r)
    /\ runs[r].pc = "loop"
    /\ runs[r].i > Len(runs[r].jobs)
    /\ Len(runs[r].jobs) = MaxRows
    /\ \A n \in DOMAIN runs[r].jobs : runs[r].jobs[n].scrapeStatus # "idle"
    /\ jobs = runs[r].jobs
    /\ Ids(jobs) \subseteq scalls

\* C16: no step takes the scrapeStatus or the transformStatus of a job that
\* stays in the store from a value other than idle back to idle.
C16_NeverBackToIdle ==
  [][\A k \in DOMAIN jobs :
       SameJob(k) =>
         /\ jobs[k].scrapeStatus # "idle" => jobs'[k].scrapeStatus # "idle"
         /\ jobs[k].transformStatus # "idle"
              => jobs'[k].transformStatus # "idle"]_vars

\* the run is over and left a job failed in both stages behind
C16_Witness ==
  /\ view = "BULK"
  /\ ~isProcessing
  /\ \E r \in DOMAIN runs : runs[r].pc = "done"
  /\ \E k \in DOMAIN jobs :
       jobs[k].scrapeStatus = "failed" /\ jobs[k].transformStatus = "failed"
  /\ \A k \in DOMAIN jobs : jobs[k].scrapeStatus # "idle"

\* C17: from each state of a run to the next, completedJobs does not
\* decrease.
C17_CompletedMonotone ==
  [][(isProcessing /\ view' = view) => completedJobs' >= completedJobs]_vars

\* the jobs of the store in a terminal state under the configured prompt and
\* sample
TerminalJobs ==
  {k \in DOMAIN jobs : TerminalState(jobs[k], HasSpec(prompt, sampleFile))}

\* C18: in every state completedJobs is the number of jobs of the store in a
\* terminal state under the configured prompt and sample, so it equals
\* totalJobs exactly when every job is terminal.
C18_CompletedIsTerminalCount ==
  /\ completedJobs = Cardinality(TerminalJobs)
  /\ completedJobs = totalJobs <=> TerminalJobs = DOMAIN jobs

\* half way through a run: one job failed in extraction, one still to do
C18_Witness ==
  /\ isProcessing
  /\ totalJobs = 2
  /\ completedJobs = 1
  /\ jobs[1].scrapeStatus = "failed"
  /\ jobs[1].transformStatus = "idle"
  /\ jobs[2].scrapeStatus = "pending"

\* the Start Batch button can be clicked, and no prompt and no sample is set
EmptySpecClick ==
  /\ view = "BULK"
  /\ task = 0
  /\ ~isProcessing
  /\ Len(jobs) # 0
  /\ Len(runs) < MaxRuns
  /\ ~HasSpec(prompt, sampleFile)

SampleOnly(r) == runs[r].prompt = <<>> /\ Present(runs[r].sampleFile)

\* C20: in a run started with an empty prompt and a sample, a job whose
\* extraction succeeded is not skipped: transformContent is called with the
\* extracted content, the empty prompt and the content of that sample, and
\* when the call has settled the job's transformStatus is success or failed.
C20_SampleOnlyTransforms ==
  [][\A r \in DOMAIN runs :
       SampleOnly(r) =>
         /\ (runs[r].pc = "extracted" /\ runs'[r] # runs[r]) =>
              /\ runs'[r].pc \in {"awaitTransform", "transformed"}
              /\ runs'[r].targ =
                   Some([content |-> runs[r].sres[1].content, prompt |-> <<>>,
                         sample |-> Some(runs[r].sampleFile[1].content)])
              /\ (Mounted(r) /\ CurJob(r).id \in Ids(jobs))
                   => CurJob(r).id \in tcalls'
         /\ (runs[r].pc = "transformed" /\ runs'[r] # runs[r]) =>
              \A k \in DOMAIN jobs :
                (Mounted(r) /\ jobs[k].id = CurJob(r).id)
                  => /\ SameJob(k)
                     /\ jobs'[k].transformStatus \in {"success", "failed"}]_vars

\* a run started with a sample only has transformed its first job with it
C20_Witness ==
  \E r \in DOMAIN runs :
    /\ SampleOnly(r)
    /\ Mounted(r)
    /\ runs[r].i = 2
    /\ Len(jobs) >= 2
    /\ jobs[1].id = runs[r].jobs[1].id
    /\ jobs[1].scrapeStatus = "success"
    /\ jobs[1].transformStatus = "success"
    /\ jobs[1].id \in tcalls

\* the URLs of a list that are not empty after trimming, trimmed, in order
RECURSIVE NonBlankUrls(_, _)
NonBlankUrls(rows, k) ==
  IF k > Len(rows) THEN <<>>
  ELSE IF Trim(rows[k]) = <<>> THEN NonBlankUrls(rows, k + 1)
  ELSE <<Trim(rows[k])>> \o NonBlankUrls(rows, k + 1)

UrlSeq(js) == [k \in DOMAIN js |-> js[k].url]

\* C21: the store created from a list holds one job per entry that is not
\* empty or blank, in the order of the list, all idle/idle; no job has an
\* empty url.
C21_CreateDropsBlank ==
  /\ [][(urlReads' < urlReads /\ view' = view) =>
          /\ \E rows \in SheetRows : UrlSeq(jobs') = NonBlankUrls(rows, 1)
          /\ \A k \in DOMAIN jobs' :
               jobs'[k].scrapeStatus = "idle" /\ jobs'[k].transformStatus = "idle"]_vars
  /\ [](\A k \in DOMAIN jobs : jobs[k].url # <<>>)

\* C22: the jobs of the store have pairwise distinct ids.
C22_DistinctIds ==
  \A k, m \in DOMAIN jobs : k # m => jobs[k].id # jobs[m].id

\* a second list has been loaded and its jobs are being processed
C22_Witness ==
  /\ stamp = 2
  /\ Len(jobs) = MaxRows
  /\ isProcessing
  /\ \E k \in DOMAIN jobs : jobs[k].scrapeStatus = "success"

\* C23: a store update of the pipeline changes only the job with the
\* addressed id: every other job, the length and the order of the store and
\* the id and url of the addressed job stay as they are.
C23_UpdateFrame ==
  [][task # 0 =>
       /\ Len(jobs') = Len(jobs)
       /\ \A k \in DOMAIN jobs :
            /\ jobs'[k].id = jobs[k].id
            /\ jobs'[k].url = jobs[k].url
            /\ ( runs[task].i \in DOMAIN runs[task].jobs
                 /\ jobs[k].id # CurJob(task).id ) => jobs'[k] = jobs[k]
            /\ runs[task].i \notin DOMAIN runs[task].jobs => jobs'[k] = jobs[k]]_vars

\* the first job is being transformed, the second is as it was created
C23_Witness ==
  /\ Len(jobs) = 2
  /\ jobs[1].scrapeStatus = "success"
  /\ jobs[1].transformStatus = "pending"
  /\ jobs[2] = NewJob(1, stamp, jobs[2].url)
  /\ jobs[1].url = Trim(jobs[1].url)

\* the next step of run r is a setJobs of processJob, and the displayed store
\* of its instance has no job with the id it addresses
StaleWrite(r) ==
  /\ task = r
  /\ Mounted(r)
  /\ runs[r].i \in DOMAIN runs[r].jobs
  /\ \/ runs[r].pc \in {"scraped", "extracted", "transformed"}
     \/ runs[r].pc = "loop" /\ IsIdle(CurJob(r))
  /\ CurJob(r).id \notin Ids(jobs)

\* C24: an update addressed to an id that no job of the store has fails
\* with a NotFound error: the run does not go on as after a write that took
\* place.
C24_NotFoundSurfaced ==
  [][\A r \in DOMAIN runs :
       (StaleWrite(r) /\ runs'[r] # runs[r]) => runs'[r].pc = "notFound"]_vars

NoJobPending ==
  \A k \in DOMAIN jobs :
    jobs[k].scrapeStatus # "pending" /\ jobs[k].transformStatus # "pending"

\* C25: when every request is answered or rejected in the end, every run
\* that was started returns, and the instance that shows isProcessing comes
\* to a state with isProcessing false and no job pending, whatever failed.
C25_RunTerminates ==
  /\ \A r \in 1..MaxRuns :
       (r \in DOMAIN runs) ~> (r \in DOMAIN runs /\ runs[r].pc = "done")
  /\ isProcessing ~> (~isProcessing /\ NoJobPending)

\* a run has returned and every job of the list failed
C25_Witness ==
  /\ view = "BULK"
  /\ ~isProcessing
  /\ Len(jobs) >= 2
  /\ \E r \in DOMAIN runs : runs[r].pc = "done"
  /\ \A k \in DOMAIN jobs : jobs[k].scrapeStatus = "failed"
  /\ NoJobPending

\* C26: a request that does not respond is given up after a bounded wait, the
\* stage becomes failed and the run goes on: whenever a job is pending, a
\* state with no job pending follows, also when the service never answers.
C26_NoStuckPending == (~NoJobPending) ~> NoJobPending

\* C28: when the answer of the transformation request has no text, the job's
\* transformStatus becomes failed with an error recorded; the job is not
\* recorded as success with a content.
C28_EmptyAnswerFails ==
  [][\A r \in DOMAIN runs :
       ( /\ runs[r].pc = "transformed"
         /\ runs'[r] # runs[r]
         /\ runs[r].tres = Some(transformContent(TRUE, "empty")) )
       => \A k \in DOMAIN jobs :
            (Mounted(r) /\ jobs[k].id = CurJob(r).id)
              => /\ jobs'[k].transformStatus = "failed"
                 /\ Present(jobs'[k].error)
                 /\ ~Present(jobs'[k].transformedData)]_vars

\* C29: the export has one row per job of the store, in store order,
\* whatever the state of the job; the row of a failed job has the job's
\* error in Error and an empty TransformedContent.
C29_ExportRows ==
  LET rows == ExportRows(jobs)
  IN /\ Len(rows) = Len(jobs)
     /\ \A k \in DOMAIN jobs :
          /\ rows[k].URL = jobs[k].url
          /\ (jobs[k].scrapeStatus = "failed" \/ jobs[k].transformStatus = "failed")
               => /\ Present(jobs[k].error)
                  /\ rows[k].Error = jobs[k].error[1]
                  /\ rows[k].Error # <<>>
                  /\ rows[k].TransformedContent = <<>>

\* the Export button is shown and the store holds a failed job before the
\* job that went through
C29_Witness ==
  /\ Len(jobs) = 2
  /\ ~isProcessing
  /\ jobs[1].transformStatus = "failed"
  /\ jobs[2].transformStatus = "success"
  /\ ExportRows(jobs)[1].Status = "Failed"
  /\ ExportRows(jobs)[2].TransformedContent = ModelText

RECURSIVE Contains(_, _, _)
Contains(s, i, pat) ==
  i <= Len(s) /\ (StartsWith(s, i, pat) \/ Contains(s, i + 1, pat))

\* no bold, no italic, no heading (# signs at the start of a line with a
\* blank after them)
NoMarkup(s) ==
  /\ ~Contains(s, 1, "**")
  /\ ~Contains(s, 1, "__")
  /\ \A i \in 1..Len(s) :
       (AtLineStart(s, i) /\ Ch(s, i) = "#")
         => ~(SkipHashes(s, i) <= Len(s) /\ Ch(s, SkipHashes(s, i)) = " ")

\* C30: when the prompt does not ask for markdown, the text transformContent
\* returns holds no **, no __ and no heading, with or without a sample.
C30_MarkupStripped ==
  [][\A r \in DOMAIN runs :
       ( /\ runs[r].pc = "awaitTransform"
         /\ runs'[r].pc = "transformed"
         /\ ~IsMarkdownRequested(runs[r].targ[1].prompt)
         /\ ~runs'[r].tres[1].thrown )
       => NoMarkup(runs'[r].tres[1].val)]_vars

\* the first five lines of the text that are not blank
FirstFive(text) ==
  LET ls == NonEmptyLines(text)
  IN SubSeq(ls, 1, IF Len(ls) < 5 THEN Len(ls) ELSE 5)
\* the title the specification asks for: the text after the label (white
\* space around it removed) of the first labelled line among them, else the
\* first line when it is under 100 characters, else the placeholder
SpecifiedTitle(text) ==
  LET ls == FirstFive(text)
      labelled == {k \in DOMAIN ls : HasLabel(ls[k])}
  IN IF labelled # {}
       THEN LET k == CHOOSE m \in labelled : \A n \in labelled : m <= n
            IN TrimText(StripLabel(ls[k]))
     ELSE IF ls # <<>> /\ Len(ls[1]) < 100 THEN ls[1]
     ELSE "Scraped Page Content"

\* C31: the title scrapeUrl returns with an extracted text is the text after
\* the label of the first line, among the first five non-empty lines, that
\* begins with 'title:' or 'product name:' in any case; when there is none it
\* is the first non-empty line if that is under 100 characters, and the
\* placeholder 'Scraped Page Content' otherwise.
C31_InferredTitle ==
  [][\A r \in DOMAIN runs :
       (runs[r].pc = "awaitScrape" /\ runs'[r].pc = "scraped")
         => runs'[r].sres[1].title = SpecifiedTitle(runs'[r].sres[1].content)]_vars
\* a label on the fifth line that is not blank, the sixth of the text, wins
\* over the short first line
C31_Witness ==
  \E r \in DOMAIN runs :
    /\ runs[r].pc = "scraped"
    /\ runs[r].sres[1].content = "Lamp\n \nLamp\nLamp\nLamp\nProduct name:Bed"
    /\ runs[r].sres[1].title = "Bed"

\* C32: when the answer of the transformer is a code block (an opening fence
\* line, a body, a closing fence) with any white space before and after it,
\* the text transformContent returns holds no fence.
C32_FenceRemoved ==
  [][\A r \in DOMAIN runs :
       ( /\ runs[r].pc = "awaitTransform"
         /\ runs'[r].pc = "transformed"
         /\ ~runs'[r].tres[1].thrown )
       => ~Contains(runs'[r].tres[1].val, 1, Fence)]_vars

\* C33: whenever isProcessing is false, no job of the store has scrapeStatus
\* or transformStatus pending.
C33_IdleMeansNoPending == ~isProcessing => NoJobPending
\* a run is over and one of its jobs went through both pending states
C33_Witness ==
  /\ ~isProcessing
  /\ view = "BULK"
  /\ \E k \in DOMAIN jobs :
       jobs[k].scrapeStatus = "failed" /\ jobs[k].transformStatus = "failed"

\* the content of a sample file, as handed to transformContent
SampleContentOf(sf) == IF Present(sf) THEN Some(sf[1].content) ELSE None

\* C34: a run keeps the prompt and the sample file the instance had when the
\* run was started, and every transformContent call of the run is made with
\* them, whatever sample file has been set in the meantime.
C34_ArgsOfTheStart ==
  [][/\ \A r \in DOMAIN runs' \ DOMAIN runs :
          runs'[r].prompt = prompt /\ runs'[r].sampleFile = sampleFile
     /\ \A r \in DOMAIN runs :
          /\ runs'[r].pc # "done"
               => /\ runs'[r].prompt = runs[r].prompt
                  /\ runs'[r].sampleFile = runs[r].sampleFile
          /\ (runs'[r].targ # runs[r].targ /\ Present(runs'[r].targ))
               => /\ runs'[r].targ[1].prompt = runs[r].prompt
                  /\ runs'[r].targ[1].sample = SampleContentOf(runs[r].sampleFile)]_vars
\* the call for the second job of a run started without sample, made after a
\* sample file has been set
C34_Witness ==
  \E r \in DOMAIN runs :
    /\ runs[r].mounted
    /\ runs[r].i = 2
    /\ runs[r].pc = "awaitTransform"
    /\ Present(sampleFile)
    /\ runs[r].targ[1].sample = None

\* the Start handler would return at once: the store is empty, or prompt and
\* sample file are both empty
NothingToStart == Len(jobs) = 0 \/ ~HasSpec(prompt, sampleFile)

\* C35: startProcessing invoked with an empty store, or with prompt and
\* sample file both empty, does nothing: in such a state the handler has no
\* step to take, and no step taken from such a state starts a run, sets
\* isProcessing, changes a job that stays in the store or calls scrapeUrl or
\* transformContent for a job of the store.
C35_StartIsNoOp ==
  /\ []((task = 0 /\ NothingToStart) => ~ENABLED startProcessing)
  /\ [][(task = 0 /\ NothingToStart /\ view' = view) =>
          /\ Len(runs') = Len(runs)
          /\ isProcessing' = isProcessing
          /\ \A k \in DOMAIN jobs : SameJob(k) => jobs'[k] = jobs[k]
          /\ scalls' \subseteq scalls
          /\ tcalls' \subseteq tcalls]_vars
\* the instance has a prompt and an empty store, and nothing else keeps the
\* click from acting
C35_Witness ==
  /\ view = "BULK"
  /\ task = 0
  /\ ~isProcessing
  /\ Len(runs) < MaxRuns
  /\ Len(jobs) = 0
  /\ HasSpec(prompt, sampleFile)
  /\ ~ENABLED startProcessing

\* C36: in the exported rows Status is 'Success' for the jobs whose
\* transformStatus is success and 'Failed' for every other job, idle and
\* pending ones included.
C36_StatusColumn ==
  \A k \in DOMAIN jobs :
    ExportRows(jobs)[k].Status =
      (IF jobs[k].transformStatus = "success" THEN "Success" ELSE "Failed")
\* the export is clicked during a run: the first job went through, the second
\* one is being extracted and is exported as Failed
C36_Witness ==
  /\ task = 0
  /\ Len(jobs) = 2
  /\ jobs[1].transformStatus = "success"
  /\ jobs[2].scrapeStatus = "pending"
  /\ jobs[2].transformStatus = "idle"
  /\ ExportRows(jobs)[2].Status = "Failed"

\* the jobs of the store that went through
SucceededJobs == {k \in DOMAIN jobs : jobs[k].transformStatus = "success"}

\* C37: the Export button is shown exactly when at least one job of the
\* store has transformStatus success; after a run in which every job failed
\* it is not shown.
C37_ExportOffered ==
  /\ ExportShown(jobs) <=> Cardinality(SucceededJobs) >= 1
  /\ ( /\ ~isProcessing
       /\ jobs # <<>>
       /\ \A k \in DOMAIN jobs :
            jobs[k].scrapeStatus = "failed" \/ jobs[k].transformStatus = "failed" )
     => ~ExportShown(jobs)
\* a run of two jobs is over, both failed, and there is no Export button
C37_Witness ==
  /\ view = "BULK"
  /\ ~isProcessing
  /\ Len(jobs) = 2
  /\ \A k \in DOMAIN jobs : k \in TerminalJobs /\ k \notin SucceededJobs
  /\ ~ExportShown(jobs)

\* a call of the single URL view settles in this step
SingleSettles(pc) ==
  view' = view /\ single.pc = pc /\ single'.pc = "idle"

\* C38: in the single URL view step goes from 1 to 2 only when scrapeUrl
\* returns a result that is not failed, which is then stored in scrapedData,
\* and from 2 to 3 only when transformContent resolves; when a call has
\* settled loading is false again, and the step has either advanced or stayed
\* as it was with error set.
C38_SingleSteps ==
  [][/\ (single.step = 1 /\ single'.step = 2)
          => /\ SingleSettles("awaitScrape")
             /\ Present(single'.scrapedData)
             /\ single'.scrapedData[1].status # "failed"
     /\ (single.step = 2 /\ single'.step = 3)
          => /\ SingleSettles("awaitTransform")
             /\ single'.result # <<>>
     /\ (SingleSettles("awaitScrape") \/ SingleSettles("awaitTransform"))
          => /\ ~single'.loading
             /\ \/ single'.step = single.step + 1
                \/ /\ single'.step = single.step
                   /\ Present(single'.error)
                   /\ single'.error[1] # <<>>]_vars
\* the extraction went through and the transformation has failed: step 2
\* with the error shown and the button enabled again
C38_Witness ==
  /\ view = "SINGLE"
  /\ single.step = 2
  /\ Present(single.scrapedData)
  /\ Present(single.error)
  /\ single.pc = "idle"
  /\ ~single.loading

\* a value the app may store: trimmed, starting with AIza, over 30 characters
StorableKey(k) == TrimText(k) = k /\ StartsWith(k, 1, "AIza") /\ Len(k) > 30
\* the messages of a refused save
SaveErrors ==
  {"API Key cannot be empty.",
   "Invalid API Key format. Must start with \"AIza\".",
   "Invalid API Key. Length is too short."}

====
